---- MODULE Spec2Model ----
(***************************************************************************)
(* Customer feedback dashboard (customer_feedback_dashboard_final.py, and  *)
(* the same load / score / summary code in customer_feedback_dashboard_v6). *)
(*                                                                         *)
(* The script runs top to bottom once per uploaded workbook: load and      *)
(* clean the grid, score every customer row, build the company summary,    *)
(* compute CSI and the average customer satisfaction, draw the insight     *)
(* charts, print the key takeaways, then recompute the figures for the     *)
(* exported report and write one section per customer into it.  Each       *)
(* section of the script is one action; an unhandled Python exception      *)
(* stops the script (pc = "crashed").                                      *)
(*                                                                         *)
(* Numbers: the script computes in IEEE doubles.  The model computes in    *)
(* exact rationals extended with NaN and +/-inf, so every statement below  *)
(* is a statement up to floating-point rounding.                           *)
(***************************************************************************)
EXTENDS Integers, Sequences, FiniteSets, TLC

VARIABLES
    n_columns,         \* the number of columns of the uploaded sheet
    df_raw,            \* the uploaded grid: the data rows below the header
    df,                \* the cleaned frame (rows with a name), in row order
    row_i,             \* position of the running `for _, row in df.iterrows()`
    ratings,           \* the list `ratings`
    reports,           \* per customer: the table and text shown for it
    summary,           \* the `summary` frame: Importance, Performance, Gap
    CSI,
    avg_customer_sat,
    hist_counts,       \* the bar heights of the satisfaction histogram
    variation,         \* the `variation` frame, each entry squared (see Variance)
    most_consistent,   \* the category shown as "Most Consistent Area", 0 before
    export_reports,    \* per customer: the section of the exported report
    error,             \* the exception that stopped the script, or "none"
    pc

vars == <<n_columns, df_raw, df, row_i, ratings, reports, summary, CSI, avg_customer_sat,
          hist_counts, variation, most_consistent, export_reports, error, pc>>

-----------------------------------------------------------------------------
(* Program constants *)

\* len(categories)
NumCategories == 6
\* the 5 of `(sum(weighted_perf) / 5) * 100`
ScaleDivisor == 5
\* the 100 of `(sum(weighted_perf) / 5) * 100` and of `(perf_avg / imp_avg) * 100`
Percent == 100

categories == 1..NumCategories

-----------------------------------------------------------------------------
(* Float values: a rational n/d in lowest terms with d > 0, NaN, or an      *)
(* infinity (n = 1 or -1).                                                 *)

Abs(x) == IF x < 0 THEN -x ELSE x

RECURSIVE GCD(_, _)
GCD(a, b) == IF b = 0 THEN a ELSE GCD(b, a % b)

Frac(n, d) ==
    LET g == GCD(Abs(n), Abs(d))
        s == IF d < 0 THEN -1 ELSE 1
    IN  [k |-> "num", n |-> (s * n) \div g, d |-> (s * d) \div g]

Num(v) == [k |-> "num", n |-> v, d |-> 1]
NaN == [k |-> "nan", n |-> 0, d |-> 1]
Inf(s) == [k |-> "inf", n |-> s, d |-> 1]
Unset == [k |-> "unset", n |-> 0, d |-> 1]

IsNaN(x) == x.k = "nan"
IsNum(x) == x.k = "num"
IsInf(x) == x.k = "inf"
IsZero(x) == x.k = "num" /\ x.n = 0
Sign(x) == IF x.n > 0 THEN 1 ELSE IF x.n < 0 THEN -1 ELSE 0

\* float addition
Add(a, b) ==
    IF IsNaN(a) \/ IsNaN(b) THEN NaN
    ELSE IF IsInf(a) /\ IsInf(b) THEN (IF a.n = b.n THEN a ELSE NaN)
    ELSE IF IsInf(a) THEN a
    ELSE IF IsInf(b) THEN b
    ELSE Frac(a.n * b.d + b.n * a.d, a.d * b.d)

Neg(a) == IF IsNaN(a) THEN NaN ELSE [a EXCEPT !.n = -a.n]

Sub(a, b) == Add(a, Neg(b))

\* float multiplication
Mul(a, b) ==
    IF IsNaN(a) \/ IsNaN(b) THEN NaN
    ELSE IF IsInf(a) \/ IsInf(b)
         THEN (IF Sign(a) * Sign(b) = 0 THEN NaN ELSE Inf(Sign(a) * Sign(b)))
    ELSE Frac(a.n * b.n, a.d * b.d)

\* numpy float64 division: a zero divisor gives inf or nan (with a warning),
\* never an exception.  Python's own float division raises instead; the
\* callers decide which one applies.
Div(a, b) ==
    IF IsNaN(a) \/ IsNaN(b) THEN NaN
    ELSE IF IsInf(a) THEN (IF IsInf(b) THEN NaN
                           ELSE Inf(a.n * (IF Sign(b) < 0 THEN -1 ELSE 1)))
    ELSE IF IsInf(b) THEN Num(0)
    ELSE IF b.n = 0 THEN (IF a.n = 0 THEN NaN ELSE Inf(Sign(a)))
    ELSE Frac(a.n * b.d, a.d * b.n)

\* Python's sum(list): 0 + x1 + x2 + ...
RECURSIVE SumUpTo(_, _)
SumUpTo(s, n) == IF n = 0 THEN Num(0) ELSE Add(SumUpTo(s, n - 1), s[n])

Sum(s) == SumUpTo(s, Len(s))

\* the entries of s that are not NaN, in order
RECURSIVE DropNaN(_)
DropNaN(s) ==
    IF Len(s) = 0 THEN <<>>
    ELSE IF IsNaN(s[Len(s)]) THEN DropNaN(SubSeq(s, 1, Len(s) - 1))
    ELSE Append(DropNaN(SubSeq(s, 1, Len(s) - 1)), s[Len(s)])

\* MUTANT of PandasMean: the mean weighted by position, later values counting more
PositionWeightedMean(s) ==
    LET kept == DropNaN(s)
        n == Len(kept)
    IN  IF n = 0 THEN NaN
        ELSE Div(Sum([i \in 1..n |-> Mul(Num(i), kept[i])]), Num((n * (n + 1)) \div 2))

\* pandas Series.mean(): skips NaN; NaN when nothing is left
PandasMean(s) ==
    LET kept == DropNaN(s)
    IN  IF Len(kept) = 0 THEN NaN ELSE Div(Sum(kept), Num(Len(kept)))

\* np.mean(list): NaN entries propagate; the empty list gives NaN (with a warning)
NumpyMean(s) == IF Len(s) = 0 THEN NaN ELSE Div(Sum(s), Num(Len(s)))

-----------------------------------------------------------------------------
(* The uploaded grid *)

\* line 34: df_raw.iloc[3:, 1:14] keeps the sheet columns FirstColumn..StopColumn-1
FirstColumn == 1
StopColumn == 14
\* lines 36-44: the number of column names assigned to the slice
ExpectedColumns == 13

\* MUTANT of SlicedColumns: the slice is as wide as the list of names
SlicedColumnsPadded(n) == ExpectedColumns

\* line 34: the number of columns of the slice of a sheet of n columns
SlicedColumns(n) ==
    IF n <= FirstColumn THEN 0
    ELSE IF n >= StopColumn THEN StopColumn - FirstColumn
    ELSE n - FirstColumn

\* lines 36-44: assigning the names to a slice of another width raises
\* ValueError (length mismatch)
ColumnsMismatch(n) == SlicedColumns(n) # ExpectedColumns

\* a cell of the sheet: a number, a string holding a number, other text (the
\* string numbered v; 0 numbers the empty string), or blank
IntCell(v) == [t |-> "int", v |-> v]
NumStrCell(v) == [t |-> "numstr", v |-> v]
TextCell == [t |-> "text", v |-> 1]
BlankCell == [t |-> "blank", v |-> 0]

\* a whitespace-only string
SpaceCell == [t |-> "space", v |-> 0]
\* a name: the string numbered v
NameCell(v) == [t |-> "text", v |-> v]

\* line 46: str(x).strip() on the string cells, every other cell as it is
Strip(cell) == IF cell.t = "space" THEN NameCell(0) ELSE cell

\* MUTANT of ToNumeric: a cell that is not a number counts as 0
ToNumericZeroFill(cell) ==
    IF cell.t \in {"int", "numstr"} THEN Num(cell.v) ELSE Num(0)

\* line 48: pd.to_numeric(errors='coerce') on a stripped measure cell
ToNumeric(cell) ==
    IF cell.t \in {"int", "numstr"} THEN Num(cell.v) ELSE NaN

\* MUTANT of NotNa: no cell counts as missing
NotNaAny(cell) == TRUE

\* line 50: Series.notna() on a stripped name cell
NotNa(cell) == cell.t # "blank"

\* lines 46-48 on one row of the grid
CleanRow(r) ==
    [name |-> Strip(r.name),
     imp  |-> [c \in categories |-> ToNumeric(Strip(r.imp[c]))],
     perf |-> [c \in categories |-> ToNumeric(Strip(r.perf[c]))]]

\* line 50: the rows of s whose name is not missing, in order
RECURSIVE NamedRows(_)
NamedRows(s) ==
    IF Len(s) = 0 THEN <<>>
    ELSE LET front == NamedRows(SubSeq(s, 1, Len(s) - 1))
             last == s[Len(s)]
         IN  IF NotNa(last.name) THEN Append(front, last) ELSE front

\* lines 46-50: the cleaned frame
LoadAndClean(grid) == NamedRows([i \in 1..Len(grid) |-> CleanRow(grid[i])])

\* Whether `row[...]` yields numpy scalars.  iterrows() builds each row as a
\* Series of the frame's common dtype: object (holding Python floats) as soon as
\* the name column holds a string, float64 when every name cell is a number or
\* blank.
NumpyScalars(grid) == \A i \in 1..Len(grid) : grid[i].name.t \in {"int", "blank"}

-----------------------------------------------------------------------------
(* Inputs *)

\* the most rows of a grid built from SmallRows
MaxRows == 2

\* the vector with a in its first k places and b in the rest
Vector(k, a, b) == [c \in categories |-> IF c <= k THEN a ELSE b]

SplitPoints == {1, 3}
ImpCells == {BlankCell} \cup {IntCell(v) : v \in {-1, 0, 1, 5}}
PerfCells == {BlankCell} \cup {IntCell(v) : v \in {0, 1, 5, 6}}

\* single customers, over every split vector of importance and performance
RichRows ==
    {[name |-> nm, imp |-> Vector(k1, a1, b1), perf |-> Vector(k2, a2, b2)] :
        nm \in {NameCell(1), IntCell(1)},
        k1 \in SplitPoints, a1 \in ImpCells, b1 \in ImpCells,
        k2 \in SplitPoints, a2 \in PerfCells, b2 \in PerfCells}

Ints(s) == [c \in categories |-> IntCell(s[c])]

Measures ==
    {<<Ints(<<5, 1, 1, 1, 1, 1>>), Ints(<<1, 5, 5, 5, 5, 5>>)>>,
     <<Ints(<<5, 5, 5, 5, 5, 5>>), Ints(<<5, 5, 5, 5, 5, 5>>)>>,
     <<Ints(<<1, 2, 3, 4, 5, 5>>), Ints(<<4, 4, 3, 5, 2, 4>>)>>,
     <<Ints(<<0, 0, 0, 0, 0, 0>>), Ints(<<5, 5, 5, 5, 5, 5>>)>>,
     <<[Ints(<<5, 1, 1, 1, 1, 1>>) EXCEPT ![1] = BlankCell], Ints(<<1, 5, 5, 5, 5, 5>>)>>,
     <<Ints(<<5, 5, 5, 5, 5, 5>>), [Ints(<<5, 5, 5, 5, 5, 5>>) EXCEPT ![6] = TextCell]>>,
     <<Vector(0, BlankCell, BlankCell), Vector(0, BlankCell, BlankCell)>>,
     <<Vector(0, NumStrCell(4), NumStrCell(4)), Vector(0, NumStrCell(3), NumStrCell(3))>>}

\* rows of the multi-customer grids
SmallRows ==
    {[name |-> NameCell(1), imp |-> m[1], perf |-> m[2]] : m \in Measures}
    \cup {[name |-> NameCell(2), imp |-> Ints(<<5, 1, 1, 1, 1, 1>>),
                                 perf |-> Ints(<<1, 5, 5, 5, 5, 5>>)],
          [name |-> BlankCell, imp |-> Ints(<<1, 2, 3, 4, 5, 5>>),
                               perf |-> Ints(<<4, 4, 3, 5, 2, 4>>)],
          [name |-> SpaceCell, imp |-> Ints(<<5, 5, 5, 5, 5, 5>>),
                               perf |-> Ints(<<5, 5, 5, 5, 5, 5>>)],
          [name |-> IntCell(7), imp |-> Ints(<<0, 0, 0, 0, 0, 0>>),
                                perf |-> Ints(<<5, 5, 5, 5, 5, 5>>)],
          [name |-> IntCell(8), imp |-> Ints(<<5, 1, 1, 1, 1, 1>>),
                                perf |-> Ints(<<1, 5, 5, 5, 5, 5>>)]}

Grids ==
    {<<r>> : r \in RichRows} \cup UNION {[1..n -> SmallRows] : n \in 0..MaxRows}

\* a cell that the sheet does not have: it lies right of the last column
AbsentCell == [t |-> "absent", v |-> 0]

\* the row r of a sheet of n columns.  Sheet column 0 is the label column, the
\* name is column 1 and category c has its importance in column 2c and its
\* performance in column 2c + 1.
RowOfWidth(r, n) ==
    [name |-> IF 1 < n THEN r.name ELSE AbsentCell,
     imp  |-> [c \in categories |-> IF 2 * c < n THEN r.imp[c] ELSE AbsentCell],
     perf |-> [c \in categories |-> IF 2 * c + 1 < n THEN r.perf[c] ELSE AbsentCell]]

\* sheets narrower and wider than the template, which has StopColumn columns
Widths == {1, StopColumn - 2, StopColumn - 1, StopColumn + 1}
ShortGrids == UNION {[1..n -> SmallRows] : n \in 0..1}

-----------------------------------------------------------------------------
(* The per-customer scoring loop body, lines 67-73 *)

\* MUTANT of total_importance: the last category left out of the total
total_importance_short(row) == SumUpTo(row.imp, NumCategories - 1)

total_importance(row) == Sum(row.imp)

\* MUTANT of weights: the share taken of the number of categories
weights_by_count(row) == [c \in categories |-> Div(row.imp[c], Num(NumCategories))]

weights(row) == [c \in categories |-> Div(row.imp[c], total_importance(row))]

\* MUTANT of weighted_perf: performance times the raw importance
weighted_perf_raw(row) == [c \in categories |-> Mul(row.perf[c], row.imp[c])]

weighted_perf(row) == [c \in categories |-> Mul(row.perf[c], weights(row)[c])]

\* MUTANT of satisfaction: divides by the number of categories
satisfaction_by_count(row) ==
    Mul(Div(Sum(weighted_perf(row)), Num(NumCategories)), Num(Percent))

\* MUTANT of satisfaction: the scale divisor left out
satisfaction_unscaled(row) == Mul(Sum(weighted_perf(row)), Num(Percent))

satisfaction(row) ==
    Mul(Div(Sum(weighted_perf(row)), Num(ScaleDivisor)), Num(Percent))

\* what the loop shows for one customer (lines 77-93)
Report(row) ==
    [name |-> row.name, importance |-> row.imp, performance |-> row.perf,
     total_importance |-> total_importance(row), weights |-> weights(row),
     weighted_perf |-> weighted_perf(row), satisfaction |-> satisfaction(row)]

\* `imp / total_importance` on Python floats raises when the total is zero
RaisesZeroDivision(row) == ~NumpyScalars(df_raw) /\ IsZero(total_importance(row))

-----------------------------------------------------------------------------
(* The script *)

Init ==
    /\ \/ df_raw \in Grids /\ n_columns = StopColumn
       \/ \E n \in Widths : \E g \in ShortGrids :
              /\ n_columns = n
              /\ df_raw = [i \in 1..Len(g) |-> RowOfWidth(g[i], n)]
    /\ df = <<>>
    /\ row_i = 0
    /\ ratings = <<>>
    /\ reports = <<>>
    /\ summary = [Importance |-> <<>>, Performance |-> <<>>, Gap |-> <<>>]
    /\ CSI = Unset
    /\ avg_customer_sat = Unset
    /\ hist_counts = <<>>
    /\ variation = <<>>
    /\ most_consistent = 0
    /\ export_reports = <<>>
    /\ error = "none"
    /\ pc = "load"

\* lines 33-61
Load ==
    /\ pc = "load"
    /\ IF ColumnsMismatch(n_columns)
       THEN /\ error' = "ValueError: Length mismatch"
            /\ pc' = "crashed"
            /\ UNCHANGED <<df, ratings, row_i>>
       ELSE /\ df' = LoadAndClean(df_raw)
            /\ ratings' = <<>>
            /\ row_i' = 1
            /\ pc' = "score"
            /\ UNCHANGED error
    /\ UNCHANGED <<n_columns, hist_counts, variation, most_consistent, df_raw, reports, summary, CSI, avg_customer_sat, export_reports>>

\* lines 63-108: one pass of the loop body
ScoreRow ==
    /\ pc = "score"
    /\ row_i <= Len(df)
    /\ IF RaisesZeroDivision(df[row_i])
       THEN /\ error' = "ZeroDivisionError"
            /\ pc' = "crashed"
            /\ UNCHANGED <<ratings, reports, row_i>>
       ELSE /\ ratings' = Append(ratings, satisfaction(df[row_i]))
            /\ reports' = Append(reports, Report(df[row_i]))
            /\ row_i' = row_i + 1
            /\ UNCHANGED <<error, pc>>
    /\ UNCHANGED <<n_columns, hist_counts, variation, most_consistent, df_raw, df, summary, CSI, avg_customer_sat, export_reports>>

Column(frame, field, c) == [i \in 1..Len(frame) |-> frame[i][field][c]]

\* lines 115-120
Summarize(frame) ==
    LET Importance == [c \in categories |-> PandasMean(Column(frame, "imp", c))]
        Performance == [c \in categories |-> PandasMean(Column(frame, "perf", c))]
    IN  [Importance |-> Importance, Performance |-> Performance,
         Gap |-> [c \in categories |-> Sub(Performance[c], Importance[c])]]

Summary ==
    /\ pc = "score"
    /\ row_i > Len(df)
    /\ summary' = Summarize(df)
    /\ pc' = "index"
    /\ UNCHANGED <<n_columns, hist_counts, variation, most_consistent, df_raw, df, row_i, ratings, reports, CSI, avg_customer_sat,
                   export_reports, error>>

\* MUTANT of CompanyCSI: the mean over the categories of performance / importance
CompanyCSIOfRatios(s) ==
    Mul(PandasMean([c \in categories |-> Div(s.Performance[c], s.Importance[c])]),
        Num(Percent))

\* MUTANT of CompanyCSI: the 20 * weighted performance of the average customer,
\* the importance averages taken as the weights
CompanyCSIWeighted(s) ==
    Mul(Div(Div(Sum([c \in categories |-> Mul(s.Performance[c], s.Importance[c])]),
                Sum(s.Importance)),
            Num(ScaleDivisor)),
        Num(Percent))

\* lines 135-137 and 257-259
CompanyCSI(s) ==
    LET imp_avg == PandasMean(s.Importance)
        perf_avg == PandasMean(s.Performance)
    IN  Mul(Div(perf_avg, imp_avg), Num(Percent))

\* lines 135-140
CompanyIndex ==
    /\ pc = "index"
    /\ CSI' = CompanyCSI(summary)
    /\ avg_customer_sat' = NumpyMean(ratings)
    /\ pc' = "insights"
    /\ UNCHANGED <<n_columns, hist_counts, variation, most_consistent, df_raw, df, row_i, ratings, reports, summary, export_reports, error>>

\* pandas Series.sum(): skips NaN; 0 when nothing is left
PandasSum(s) == Sum(DropNaN(s))

\* line 189
weights_total(s) ==
    [c \in categories |-> Div(s.Importance[c], PandasSum(s.Importance))]

\* lines 190-191: whether ax.pie(x) raises ValueError.  It does for a negative
\* wedge; a NaN or infinite wedge makes every wedge angle NaN, which the drawing
\* code of some matplotlib versions rejects and of others lets through.
PieRaises(x) ==
    IF \E c \in categories : ~IsNaN(x[c]) /\ x[c].n < 0 THEN {TRUE}
    ELSE IF \E c \in categories : ~IsNum(x[c]) THEN {TRUE, FALSE}
    ELSE {FALSE}

\* a < b on two finite numbers
Less(a, b) == a.n * b.d < b.n * a.d

\* line 164: the bin edges of the histogram
HistBins == <<50, 65, 75, 85, 95, 100>>
NumBins == Len(HistBins) - 1

\* numpy.histogram with explicit edges: bin b is [edge b, edge b+1), the last
\* bin takes its right edge too; NaN and infinite values fall in no bin
InBin(x, b) ==
    /\ IsNum(x)
    /\ ~Less(x, Num(HistBins[b]))
    /\ \/ Less(x, Num(HistBins[b + 1]))
       \/ b = NumBins /\ x = Num(HistBins[b + 1])

\* lines 164 and 435: the bar heights of ax.hist(ratings, bins=[...])
Histogram(rs) ==
    [b \in 1..NumBins |-> Cardinality({i \in 1..Len(rs) : InBin(rs[i], b)})]

\* the squares of the entries of s
Squares(s) == [i \in 1..Len(s) |-> Mul(s[i], s[i])]

\* MUTANT of Variance: the sample variance (divisor N - 1)
VarianceSample(s) ==
    LET kept == DropNaN(s)
        m == PandasMean(s)
    IN  IF Len(kept) <= 1 THEN NaN
        ELSE Div(Sum(Squares([i \in 1..Len(kept) |-> Sub(kept[i], m)])),
                 Num(Len(kept) - 1))

\* line 176: np.std(Series) is Series.std(ddof=0), which skips NaN: the square
\* root of the mean squared deviation from the mean.  The square root of a
\* rational is not a rational, so the model keeps the square of np.std; the
\* order of two entries is the order of their squares.
Variance(s) ==
    LET kept == DropNaN(s)
        m == PandasMean(s)
    IN  IF Len(kept) = 0 THEN NaN
        ELSE Div(Sum(Squares([i \in 1..Len(kept) |-> Sub(kept[i], m)])),
                 Num(Len(kept)))

\* lines 173-176: the "Difference in Ratings" column, squared
Variation(frame) == [c \in categories |-> Variance(Column(frame, "perf", c))]

\* lines 160-198: the charts of the additional insights
Insights ==
    /\ pc = "insights"
    /\ hist_counts' = Histogram(ratings)
    /\ variation' = Variation(df)
    /\ \E raises \in PieRaises(weights_total(summary)) :
           IF raises
           THEN error' = "ValueError" /\ pc' = "crashed"
           ELSE error' = error /\ pc' = "takeaways"
    /\ UNCHANGED <<n_columns, most_consistent, df_raw, df, row_i, ratings, reports, summary, CSI, avg_customer_sat,
                   export_reports>>

\* Series.idxmax() / idxmin() of an all-NaN column is NaN, and .loc[NaN] raises
IdxRaises(col) == \A c \in categories : IsNaN(col[c])

\* Series.idxmin(): the first of the smallest entries that are not NaN
IdxMin(col) ==
    CHOOSE c \in categories :
        /\ ~IsNaN(col[c])
        /\ \A e \in categories : ~IsNaN(col[e]) => ~Less(col[e], col[c])
        /\ \A e \in categories : e < c => (IsNaN(col[e]) \/ Less(col[c], col[e]))

\* lines 201-207
KeyTakeaways ==
    /\ pc = "takeaways"
    /\ IF IdxRaises(summary.Gap) \/ IdxRaises(variation)
       THEN error' = "KeyError" /\ pc' = "crashed" /\ UNCHANGED most_consistent
       ELSE error' = error /\ pc' = "export" /\ most_consistent' = IdxMin(variation)
    /\ UNCHANGED <<n_columns, hist_counts, variation, df_raw, df, row_i, ratings, reports, summary, CSI, avg_customer_sat,
                   export_reports>>

\* lines 244-253: the loop again, when `ratings` is empty
Rescore(frame) == [i \in 1..Len(frame) |-> satisfaction(frame[i])]

\* MUTANT of ExportAverage: the mean of the scores that are not NaN
ExportAverageOfPresent(rs) == IF Len(rs) > 0 THEN PandasMean(rs) ELSE Num(0)

\* line 256
ExportAverage(rs) == IF Len(rs) > 0 THEN NumpyMean(rs) ELSE Num(0)

\* lines 244-259
ExportRecalc ==
    /\ pc = "export"
    /\ LET rs == IF Len(ratings) = 0 THEN Rescore(df) ELSE ratings
       IN  /\ ratings' = rs
           /\ avg_customer_sat' = ExportAverage(rs)
    /\ CSI' = CompanyCSI(summary)
    /\ row_i' = 1
    /\ pc' = "export_rows"
    /\ UNCHANGED <<n_columns, hist_counts, variation, most_consistent, df_raw, df, reports, summary, export_reports, error>>

\* lines 498-577: one customer section of the exported report
ExportRow ==
    /\ pc = "export_rows"
    /\ row_i <= Len(df)
    /\ IF RaisesZeroDivision(df[row_i])
       THEN /\ error' = "ZeroDivisionError"
            /\ pc' = "crashed"
            /\ UNCHANGED <<export_reports, row_i>>
       ELSE /\ export_reports' = Append(export_reports, Report(df[row_i]))
            /\ row_i' = row_i + 1
            /\ UNCHANGED <<error, pc>>
    /\ UNCHANGED <<n_columns, hist_counts, variation, most_consistent, df_raw, df, ratings, reports, summary, CSI, avg_customer_sat>>

\* lines 582-675: the report is handed to the download button
Finish ==
    /\ pc = "export_rows"
    /\ row_i > Len(df)
    /\ pc' = "done"
    /\ UNCHANGED <<n_columns, hist_counts, variation, most_consistent, df_raw, df, row_i, ratings, reports, summary, CSI, avg_customer_sat,
                   export_reports, error>>

Next ==
    \/ Load
    \/ ScoreRow
    \/ Summary
    \/ CompanyIndex
    \/ Insights
    \/ KeyTakeaways
    \/ ExportRecalc
    \/ ExportRow
    \/ Finish

Spec == Init /\ [][Next]_vars

-----------------------------------------------------------------------------
(* Properties *)

\* the customers scored so far, each with the entry of `ratings` it produced
Scored == 1..Len(reports)

\* every one of the twelve measures of a shown customer is a number
Complete(r) ==
    \A c \in categories : IsNum(r.importance[c]) /\ IsNum(r.performance[c])

\* integer sums over the categories of a complete customer of whole ratings
RECURSIVE IntSumTo(_, _)
IntSumTo(f, n) == IF n = 0 THEN 0 ELSE IntSumTo(f, n - 1) + f[n]

ImportanceTotal(r) == IntSumTo([c \in categories |-> r.importance[c].n], NumCategories)

PerfTimesImp(r) ==
    IntSumTo([c \in categories |-> r.performance[c].n * r.importance[c].n], NumCategories)

Importances(r) == [c \in categories |-> r.importance[c].n]
Performances(r) == [c \in categories |-> r.performance[c].n]

\* x = n / d, for a number x and integers n, d with d # 0
EqualsRatio(x, n, d) == IsNum(x) /\ x.n * d = n * x.d

(***************************************************************************)
(* C1 (as claimed): for every customer with all twelve measures present    *)
(* and total_importance > 0, satisfaction = (sum of performance[i] *       *)
(* importance[i] / total_importance) / 6 * 100, 6 being the number of      *)
(* categories.                                                             *)
(***************************************************************************)
C1_DividesByCategoryCount ==
    \A i \in Scored :
        LET r == reports[i] IN
        (Complete(r) /\ ImportanceTotal(r) > 0) =>
            /\ ratings[i] = r.satisfaction
            /\ EqualsRatio(r.satisfaction, 100 * PerfTimesImp(r), 6 * ImportanceTotal(r))

(***************************************************************************)
(* C1 (amended): for every customer with all twelve measures present and   *)
(* total_importance > 0, satisfaction = (sum of performance[i] *           *)
(* importance[i] / total_importance) / 5 * 100: the divisor is the         *)
(* constant 5, not the number of categories.                               *)
(***************************************************************************)
C1_DividesByFive ==
    \A i \in Scored :
        LET r == reports[i] IN
        (Complete(r) /\ ImportanceTotal(r) > 0) =>
            /\ ratings[i] = r.satisfaction
            /\ EqualsRatio(r.satisfaction, 100 * PerfTimesImp(r), 5 * ImportanceTotal(r))

\* C1 witness: a complete customer with unequal importances has been scored
C1_Witness ==
    \E i \in Scored :
        /\ Complete(reports[i])
        /\ ImportanceTotal(reports[i]) > 0
        /\ reports[i].importance[1] # reports[i].importance[6]
        /\ reports[i].performance[1] # reports[i].performance[6]
        /\ Len(ratings) >= i

\* the customer of the first scenario: importance 5,1,1,1,1,1, performance 1,5,5,5,5,5
IsScenarioA(r) ==
    /\ Complete(r)
    /\ Importances(r) = <<5, 1, 1, 1, 1, 1>>
    /\ Performances(r) = <<1, 5, 5, 5, 5, 5>>

ScenarioABreakdown(r) ==
    /\ r.total_importance = Num(10)
    /\ r.weights = <<Frac(1, 2), Frac(1, 10), Frac(1, 10), Frac(1, 10), Frac(1, 10), Frac(1, 10)>>
    /\ \A c \in categories : r.weighted_perf[c] = Frac(1, 2)

(***************************************************************************)
(* C2 (as claimed): the single customer with importance 5,1,1,1,1,1 and    *)
(* performance 1,5,5,5,5,5 gets total_importance 10, weights               *)
(* 0.5,0.1,0.1,0.1,0.1,0.1, contributions all 0.5 and satisfaction 50.     *)
(***************************************************************************)
C2_ScenarioGivesFifty ==
    \A i \in Scored :
        (Len(df) = 1 /\ IsScenarioA(reports[i])) =>
            /\ ScenarioABreakdown(reports[i])
            /\ reports[i].satisfaction = Num(50)
            /\ ratings[i] = Num(50)

(***************************************************************************)
(* C2 (amended): that customer gets total_importance 10, weights           *)
(* 0.5,0.1,0.1,0.1,0.1,0.1, contributions all 0.5 and satisfaction 60.     *)
(***************************************************************************)
C2_ScenarioGivesSixty ==
    \A i \in Scored :
        (Len(df) = 1 /\ IsScenarioA(reports[i])) =>
            /\ ScenarioABreakdown(reports[i])
            /\ reports[i].satisfaction = Num(60)
            /\ ratings[i] = Num(60)

\* C2 witness: the scenario's customer, alone in the frame, has been scored
C2_Witness ==
    /\ Len(df) = 1
    /\ Len(ratings) = 1
    /\ \E i \in Scored : IsScenarioA(reports[i])

\* the customer of the second scenario: every importance and performance is 5
IsScenarioB(r) ==
    /\ Complete(r)
    /\ Importances(r) = <<5, 5, 5, 5, 5, 5>>
    /\ Performances(r) = <<5, 5, 5, 5, 5, 5>>

(***************************************************************************)
(* C3: the single customer with every importance 5 and every performance 5 *)
(* gets every weight 1/6 and satisfaction 100.                             *)
(***************************************************************************)
C3_ScenarioGivesHundred ==
    \A i \in Scored :
        (Len(df) = 1 /\ IsScenarioB(reports[i])) =>
            /\ \A c \in categories : reports[i].weights[c] = Frac(1, 6)
            /\ reports[i].satisfaction = Num(100)
            /\ ratings[i] = Num(100)

\* C3 witness: the scenario's customer, alone in the frame, has been scored
C3_Witness ==
    /\ Len(df) = 1
    /\ Len(ratings) = 1
    /\ \E i \in Scored : IsScenarioB(reports[i])

\* the script is past the company index (lines 135-138)
IndexComputed == CSI # Unset

\* a cleaned row the scorer can score: twelve numbers, importance total not 0
ValidRow(row) ==
    /\ \A c \in categories : IsNum(row.imp[c]) /\ IsNum(row.perf[c])
    /\ IntSumTo([c \in categories |-> row.imp[c].n], NumCategories) # 0

ZeroTotalRow(row) ==
    /\ \A c \in categories : IsNum(row.imp[c])
    /\ IntSumTo([c \in categories |-> row.imp[c].n], NumCategories) = 0

(***************************************************************************)
(* C4 (as claimed): a customer whose total_importance is 0 does not make   *)
(* the scorer divide by zero; the customer's result is flagged undefined   *)
(* rather than given a value, and the average customer satisfaction and    *)
(* CSI computed over a frame that also holds a valid customer are numbers. *)
(***************************************************************************)
C4_ZeroTotalIsHandled ==
    /\ error # "ZeroDivisionError"
    /\ \A i \in Scored :
           IsZero(reports[i].total_importance) =>
               ~IsNum(reports[i].satisfaction) /\ ~IsInf(reports[i].satisfaction)
    /\ (/\ IndexComputed
        /\ \E i \in 1..Len(df) : ZeroTotalRow(df[i])
        /\ \E i \in 1..Len(df) : ValidRow(df[i]))
       => IsNum(avg_customer_sat) /\ ~IsNaN(CSI)

\* the performances of a shown customer all lie in [0, 5]
PerformanceInScale(r) ==
    \A c \in categories : r.performance[c].n >= 0 /\ r.performance[c].n <= 5

\* satisfaction is a number in [0, 100]
IsPercentage(x) == IsNum(x) /\ x.n >= 0 /\ x.n <= 100 * x.d

(***************************************************************************)
(* C5 (as claimed): for every customer with all measures present and all   *)
(* six performances in [0, 5], whatever numbers the importances are,       *)
(* satisfaction lies in [0, 100].  (Stated for a total_importance other    *)
(* than 0; the zero total is the case of C4.)                              *)
(***************************************************************************)
C5_InRangeForAnyImportance ==
    \A i \in Scored :
        (/\ Complete(reports[i])
         /\ PerformanceInScale(reports[i])
         /\ ImportanceTotal(reports[i]) # 0) =>
            IsPercentage(reports[i].satisfaction) /\ IsPercentage(ratings[i])

(***************************************************************************)
(* C5 (amended): for every customer with all measures present, all six     *)
(* performances in [0, 5], no negative importance and total_importance     *)
(* > 0, satisfaction lies in [0, 100].                                     *)
(***************************************************************************)
C5_InRangeForNonNegativeImportance ==
    \A i \in Scored :
        (/\ Complete(reports[i])
         /\ PerformanceInScale(reports[i])
         /\ \A c \in categories : reports[i].importance[c].n >= 0
         /\ ImportanceTotal(reports[i]) > 0) =>
            IsPercentage(reports[i].satisfaction) /\ IsPercentage(ratings[i])

\* C5 witness: such a customer, with unequal importances, scored strictly inside
\* the range
C5_Witness ==
    \E i \in Scored :
        /\ Complete(reports[i])
        /\ PerformanceInScale(reports[i])
        /\ \A c \in categories : reports[i].importance[c].n >= 0
        /\ ImportanceTotal(reports[i]) > 0
        /\ reports[i].importance[1] # reports[i].importance[6]
        /\ reports[i].satisfaction.n > 0
        /\ reports[i].satisfaction.n < 100 * reports[i].satisfaction.d

(***************************************************************************)
(* C6: for every customer with total_importance > 0 the weights            *)
(* importance[i] / total_importance add up to exactly 1.                   *)
(***************************************************************************)
C6_WeightsSumToOne ==
    \A i \in Scored :
        LET r == reports[i]
            T == ImportanceTotal(r)
        IN  ((\A c \in categories : IsNum(r.importance[c])) /\ T > 0) =>
                /\ r.total_importance = Num(T)
                /\ \A c \in categories :
                       IsNum(r.weights[c]) /\ (T * r.weights[c].n) % r.weights[c].d = 0
                /\ IntSumTo([c \in categories |-> (T * r.weights[c].n) \div r.weights[c].d],
                            NumCategories) = T

\* C6 witness: a scored customer with total_importance > 0 and unequal weights,
\* one of them negative
C6_Witness ==
    \E i \in Scored :
        /\ \A c \in categories : IsNum(reports[i].importance[c])
        /\ ImportanceTotal(reports[i]) > 0
        /\ \E c \in categories : reports[i].weights[c].n < 0
        /\ \E c \in categories : reports[i].weights[c].n > 0

\* the entries of `ratings` that belong to the valid rows of the frame
RECURSIVE ValidRatingsTo(_)
ValidRatingsTo(n) ==
    IF n = 0 THEN <<>>
    ELSE IF ValidRow(df[n]) THEN Append(ValidRatingsTo(n - 1), ratings[n])
    ELSE ValidRatingsTo(n - 1)

(***************************************************************************)
(* C7 (as claimed): a customer row with a missing measure or a zero        *)
(* importance total fails alone: the script does not stop on it while the  *)
(* frame holds a valid customer, every customer is still scored, each      *)
(* valid customer's satisfaction is its own score, and the average         *)
(* customer satisfaction is the mean over the valid customers and CSI is a *)
(* number.                                                                 *)
(***************************************************************************)
C7_BadRowIsIsolated ==
    /\ error = "ZeroDivisionError" => \A i \in 1..Len(df) : ~ValidRow(df[i])
    /\ (/\ IndexComputed
        /\ \E i \in 1..Len(df) : ValidRow(df[i])
        /\ \E i \in 1..Len(df) : ~ValidRow(df[i]))
       => /\ Len(ratings) = Len(df)
          /\ \A i \in 1..Len(df) : ValidRow(df[i]) => ratings[i] = satisfaction(df[i])
          /\ avg_customer_sat = NumpyMean(ValidRatingsTo(Len(df)))
          /\ IsNum(CSI)

\* the rows of the grid that carry a name cell, in order
RECURSIVE NamedRawTo(_)
NamedRawTo(n) ==
    IF n = 0 THEN <<>>
    ELSE IF df_raw[n].name.t # "blank" THEN Append(NamedRawTo(n - 1), df_raw[n])
    ELSE NamedRawTo(n - 1)

NamedRaw == NamedRawTo(Len(df_raw))

\* a cell of the sheet that is blank or does not read as a number
MissingCell(cell) == cell.t \in {"blank", "text", "space"}

RawMissing(r) ==
    \E c \in categories : MissingCell(r.imp[c]) \/ MissingCell(r.perf[c])

(***************************************************************************)
(* C8: a customer with any of the twelve cells missing (blank, or text     *)
(* that does not read as a number) gets a missing (NaN) satisfaction: the  *)
(* cell is not counted as zero and the score is not taken over the other   *)
(* categories.                                                             *)
(***************************************************************************)
C8_MissingCellGivesMissingScore ==
    /\ Len(reports) <= Len(NamedRaw)
    /\ \A i \in Scored :
           RawMissing(NamedRaw[i]) =>
               IsNaN(reports[i].satisfaction) /\ IsNaN(ratings[i])

\* C8 witness: a scored customer with one cell missing and eleven numbers
C8_Witness ==
    \E i \in Scored :
        /\ i <= Len(NamedRaw)
        /\ RawMissing(NamedRaw[i])
        /\ Cardinality({c \in categories : MissingCell(NamedRaw[i].imp[c])})
           + Cardinality({c \in categories : MissingCell(NamedRaw[i].perf[c])}) = 1
        /\ IsNaN(ratings[i])

(***************************************************************************)
(* C9 (as claimed): when no row is left after cleaning, the script stops   *)
(* with an EmptyDataset error or reports an explicit no-data result: it    *)
(* does not stop with some other error, and no CSI or average customer     *)
(* satisfaction it reports is a number made up for the occasion.           *)
(***************************************************************************)
C9_EmptyDatasetIsSignalled ==
    (pc # "load" /\ Len(df) = 0) =>
        /\ error \in {"none", "EmptyDataset"}
        /\ ~IsNum(CSI)
        /\ ~IsNum(avg_customer_sat)

\* the values present in a column of the frame, and their mean
PresentIn(field, c) == {i \in 1..Len(df) : IsNum(df[i][field][c])}

RECURSIVE ColumnTotalTo(_, _, _)
ColumnTotalTo(field, c, n) ==
    IF n = 0 THEN 0
    ELSE ColumnTotalTo(field, c, n - 1)
         + (IF IsNum(df[n][field][c]) THEN df[n][field][c].n ELSE 0)

ColumnMean(field, c) ==
    Frac(ColumnTotalTo(field, c, Len(df)), Cardinality(PresentIn(field, c)))

EveryColumnHasValues ==
    \A c \in categories : PresentIn("imp", c) # {} /\ PresentIn("perf", c) # {}

MeanOverCategories(field) ==
    Div(SumUpTo([c \in categories |-> ColumnMean(field, c)], NumCategories), Num(6))

(***************************************************************************)
(* C10: once computed, CSI = (mean over the categories of the column mean  *)
(* of performance) / (mean over the categories of the column mean of       *)
(* importance) * 100, each column mean taken over the customers that have  *)
(* a value in that column; each summary entry is that column mean; and the *)
(* average customer satisfaction is the sum of the customers'              *)
(* satisfaction values divided by their number.                            *)
(***************************************************************************)
C10_CompanyIndexFormulas ==
    (IndexComputed /\ EveryColumnHasValues) =>
        /\ \A c \in categories :
               /\ summary.Importance[c] = ColumnMean("imp", c)
               /\ summary.Performance[c] = ColumnMean("perf", c)
        /\ CSI = Mul(Div(MeanOverCategories("perf"), MeanOverCategories("imp")), Num(100))
        /\ Len(ratings) = Len(df)
        /\ avg_customer_sat = Div(SumUpTo(ratings, Len(ratings)), Num(Len(df)))

\* C10 witness: two complete customers, whose CSI and average satisfaction differ
C10_Witness ==
    /\ pc = "done"
    /\ Len(df) = 2
    /\ \A i \in 1..Len(df) : ValidRow(df[i])
    /\ df[1].imp # df[2].imp
    /\ IsNum(CSI)
    /\ IsNum(avg_customer_sat)
    /\ CSI # avg_customer_sat

PerformanceTotal(r) == IntSumTo(Performances(r), NumCategories)

\* the frame holds one customer, complete and with a total importance that is
\* not zero, and the company figures have been computed
OneCustomerIndexed ==
    /\ IndexComputed
    /\ Len(df) = 1
    /\ Len(reports) = 1
    /\ Complete(reports[1])
    /\ ImportanceTotal(reports[1]) # 0

(***************************************************************************)
(* C11: CSI and the average customer satisfaction come from different      *)
(* formulas and can differ.  For a dataset of one complete customer, CSI   *)
(* is 100 * (sum of performance) / (sum of importance) and the average     *)
(* customer satisfaction is 20 * (sum of performance * importance) / (sum  *)
(* of importance), so the two are equal exactly when 5 * (sum of           *)
(* performance) = sum of performance * importance; for the customer with   *)
(* importance 5,1,1,1,1,1 and performance 1,5,5,5,5,5 CSI is 260 and the   *)
(* average customer satisfaction is 60.                                    *)
(***************************************************************************)
C11_IndexAndAverageDiverge ==
    OneCustomerIndexed =>
        LET r == reports[1] IN
        /\ EqualsRatio(CSI, 100 * PerformanceTotal(r), ImportanceTotal(r))
        /\ EqualsRatio(avg_customer_sat, 20 * PerfTimesImp(r), ImportanceTotal(r))
        /\ (CSI = avg_customer_sat) <=> (5 * PerformanceTotal(r) = PerfTimesImp(r))
        /\ IsScenarioA(r) => (CSI = Num(260) /\ avg_customer_sat = Num(60))

\* C11 witness: the dataset of that one customer, whose importance is not
\* uniform, has its CSI and average customer satisfaction computed and unequal
C11_Witness ==
    /\ OneCustomerIndexed
    /\ IsScenarioA(reports[1])
    /\ PerformanceInScale(reports[1])
    /\ CSI # avg_customer_sat

\* the orders of n rows, and the grid g with its rows in the order p
Orders(n) ==
    {p \in [1..n -> 1..n] : \A i, j \in 1..n : i # j => p[i] # p[j]}

Permuted(g, p) == [i \in 1..Len(g) |-> g[p[i]]]

\* the histogram and the dispersion table have been computed
InsightsComputed == Len(variation) > 0

\* the script has run to its end or has stopped with an exception
Ended == pc \in {"done", "crashed"}

(***************************************************************************)
(* C12: order-independence.  When the script has ended, for every order of *)
(* the rows of the uploaded grid: the frame cleaned from the reordered     *)
(* grid holds the same customers, every score that was computed is the     *)
(* score the loop computes for that customer in the reordered frame, and   *)
(* the category averages, gaps, CSI, average customer satisfaction,        *)
(* histogram and dispersion are those computed from the reordered frame.   *)
(***************************************************************************)
C12_OrderIndependence ==
    (Ended /\ ~ColumnsMismatch(n_columns)) =>
    \A p \in Orders(Len(df_raw)) :
        LET frame == LoadAndClean(Permuted(df_raw, p)) IN
        /\ Len(frame) = Len(df)
        /\ \E q \in Orders(Len(df)) :
               /\ \A i \in 1..Len(df) : frame[q[i]] = df[i]
               /\ \A i \in 1..Len(ratings) : satisfaction(frame[q[i]]) = ratings[i]
        /\ IndexComputed =>
               /\ summary = Summarize(frame)
               /\ CSI = CompanyCSI(Summarize(frame))
               /\ avg_customer_sat = NumpyMean(Rescore(frame))
        /\ InsightsComputed =>
               /\ variation = Variation(frame)
               /\ hist_counts = Histogram(Rescore(frame))

\* C12 witness: two different customers with different scores, for whom every
\* figure has been computed; the grid has an order other than the uploaded one
C12_Witness ==
    /\ pc = "done"
    /\ Len(df) = 2
    /\ Len(ratings) = 2
    /\ df[1] # df[2]
    /\ ratings[1] # ratings[2]
    /\ summary.Performance[1] # df[1].perf[1]
    /\ \E c \in categories : IsNum(variation[c]) /\ ~IsZero(variation[c])

\* the export appends the section of one customer in this step
ExportsCustomer == pc = "export_rows" /\ Len(export_reports') = Len(export_reports) + 1

(***************************************************************************)
(* C13: the export path recomputes what the interactive view computed.     *)
(* The recalculation at the head of the export leaves ratings, the         *)
(* per-customer results, the summary, CSI and the average customer         *)
(* satisfaction exactly as they were; every customer section written by    *)
(* the export carries the satisfaction, weights and contributions shown    *)
(* for that customer in the interactive view; and writing it changes none  *)
(* of the earlier results.                                                 *)
(***************************************************************************)
C13_ExportRecomputesTheSame ==
    [][/\ pc = "export" =>
              /\ ratings' = ratings
              /\ reports' = reports
              /\ summary' = summary
              /\ CSI' = CSI
              /\ avg_customer_sat' = avg_customer_sat
       /\ ExportsCustomer =>
              LET n == Len(export_reports') IN
              /\ export_reports'[n] = reports[n]
              /\ export_reports'[n].satisfaction = ratings[n]
              /\ SubSeq(export_reports', 1, n - 1) = export_reports
              /\ UNCHANGED <<ratings, reports, summary, CSI, avg_customer_sat>>]_vars

\* C13 witness: the export has recomputed the figures and written the sections
\* of two customers, one of them with a missing score
C13_Witness ==
    /\ pc = "done"
    /\ Len(export_reports) = 2
    /\ Len(ratings) = 2
    /\ IsNum(CSI)
    /\ \E i \in 1..2 : IsNum(ratings[i])
    /\ \E i \in 1..2 : IsNaN(ratings[i])

\* the sheet is as wide as the template asks and has been loaded
Loaded == pc # "load" /\ ~ColumnsMismatch(n_columns)

\* the rows of the grid that carry a name cell, cleaned, in the order of the grid
NamedClean == [i \in 1..Len(NamedRaw) |-> CleanRow(NamedRaw[i])]

\* the rows of the grid without a name cell
Nameless == {i \in 1..Len(df_raw) : df_raw[i].name.t = "blank"}

(***************************************************************************)
(* C14: the frame holds exactly the rows of the grid whose name cell is    *)
(* not missing, in the order of the grid.  The score sequence is a prefix  *)
(* of the scores of those rows, in that order, and has one entry for each  *)
(* of them once the loop has ended.  When the script has ended, the        *)
(* category averages, CSI, average customer satisfaction and dispersion    *)
(* it computed are those of the named rows alone.                          *)
(***************************************************************************)
C14_NamelessRowsAreDropped ==
    Loaded =>
        /\ df = NamedClean
        /\ Len(df) = Len(df_raw) - Cardinality(Nameless)
        /\ Len(ratings) <= Len(NamedClean)
        /\ \A i \in 1..Len(ratings) :
               /\ ratings[i] = satisfaction(NamedClean[i])
               /\ reports[i].name = NamedClean[i].name
        /\ IndexComputed => Len(ratings) = Len(NamedClean)
        /\ (Ended /\ IndexComputed) =>
               /\ summary = Summarize(NamedClean)
               /\ CSI = CompanyCSI(Summarize(NamedClean))
               /\ avg_customer_sat = NumpyMean(Rescore(NamedClean))
        /\ (Ended /\ InsightsComputed) => variation = Variation(NamedClean)

\* C14 witness: a grid with a nameless row before a named one, whose figures
\* have all been computed from the named row alone
C14_Witness ==
    /\ pc = "done"
    /\ Len(df_raw) = 2
    /\ 1 \in Nameless
    /\ Len(df) = 1
    /\ Len(ratings) = 1
    /\ IsNum(ratings[1])
    /\ df_raw[1].perf # df_raw[2].perf
    /\ InsightsComputed

\* the empty string, what is left of a whitespace-only cell after trimming
EmptyName == NameCell(0)

\* the rows of the grid whose name cell is blank or holds only whitespace
BlankNamed == {i \in 1..Len(df_raw) : df_raw[i].name.t \in {"blank", "space"}}

(***************************************************************************)
(* C15 (as claimed): every record that reaches scoring has a non-empty     *)
(* name.  A row of the grid whose name cell is blank or holds only         *)
(* whitespace is not scored and is not in the output.                      *)
(***************************************************************************)
C15_ScoredNamesAreNonEmpty ==
    Loaded =>
        /\ Len(reports) <= Len(df_raw) - Cardinality(BlankNamed)
        /\ \A i \in Scored : reports[i].name # EmptyName
        /\ \A i \in 1..Len(export_reports) : export_reports[i].name # EmptyName

\* the number of columns of the sheet after the label column
DataColumns == n_columns - FirstColumn

(***************************************************************************)
(* C16: a sheet with fewer than 13 columns after the label column is       *)
(* rejected at load with a length-mismatch ValueError: no frame is built   *)
(* and no score, summary or index is ever computed.  A sheet with 13 (or   *)
(* more) columns after the label column is not rejected; its frame holds,  *)
(* for every named row, the name and the six importance / performance      *)
(* pairs read from columns 1 to 13.                                        *)
(***************************************************************************)
C16_NarrowSheetIsRejected ==
    pc # "load" =>
        /\ DataColumns < 13 =>
               /\ pc = "crashed"
               /\ error = "ValueError: Length mismatch"
               /\ df = <<>> /\ ratings = <<>> /\ reports = <<>>
               /\ CSI = Unset /\ avg_customer_sat = Unset
        /\ DataColumns >= 13 =>
               /\ error # "ValueError: Length mismatch"
               /\ df = NamedClean
               /\ \A i \in 1..Len(df) :
                      /\ DOMAIN df[i] = {"name", "imp", "perf"}
                      /\ DOMAIN df[i].imp = categories
                      /\ DOMAIN df[i].perf = categories
                      /\ \A c \in categories :
                             /\ df[i].imp[c] = ToNumeric(Strip(NamedRaw[i].imp[c]))
                             /\ df[i].perf[c] = ToNumeric(Strip(NamedRaw[i].perf[c]))

\* C16 witness: a sheet one column short, holding a customer row, was rejected
C16_Witness ==
    /\ DataColumns = 12
    /\ Len(df_raw) = 1
    /\ df_raw[1].name.t = "text"
    /\ df_raw[1].perf[NumCategories] = AbsentCell
    /\ pc = "crashed"
    /\ error = "ValueError: Length mismatch"

\* the sum of the squares of the performance values present in column c
RECURSIVE PerfSquaresTo(_, _)
PerfSquaresTo(c, n) ==
    IF n = 0 THEN 0
    ELSE PerfSquaresTo(c, n - 1)
         + (IF IsNum(df[n].perf[c]) THEN df[n].perf[c].n * df[n].perf[c].n ELSE 0)

\* x <= y and x < y on two numbers, by cross-multiplication
AtMost(x, y) == x.n * y.d <= y.n * x.d
Below(x, y) == x.n * y.d < y.n * x.d

(***************************************************************************)
(* C17: the dispersion of a category is the population standard deviation  *)
(* of its performance values over the customers that have one: its square  *)
(* is (N * sum of squares - (sum)^2) / N^2, divisor N and not N - 1, and    *)
(* it is missing when no customer has a value.  The most consistent        *)
(* category shown is one of minimum dispersion, and every category before  *)
(* it in the category order has a strictly larger dispersion.              *)
(***************************************************************************)
C17_PopulationDispersion ==
    InsightsComputed =>
        /\ \A c \in categories :
               LET N == Cardinality(PresentIn("perf", c))
                   total == ColumnTotalTo("perf", c, Len(df))
                   squares == PerfSquaresTo(c, Len(df))
               IN  IF N = 0 THEN IsNaN(variation[c])
                   ELSE EqualsRatio(variation[c], N * squares - total * total, N * N)
        /\ pc \in {"export", "export_rows", "done"} => most_consistent \in categories
        /\ most_consistent \in categories =>
               /\ IsNum(variation[most_consistent])
               /\ \A e \in categories :
                      IsNum(variation[e]) =>
                          /\ AtMost(variation[most_consistent], variation[e])
                          /\ e < most_consistent =>
                                 Below(variation[most_consistent], variation[e])

\* C17 witness: two customers who differ in the first category and agree in
\* the others, so that the minimum dispersion is shared and the first category
\* holding it is the second
C17_Witness ==
    /\ pc = "done"
    /\ Len(df) = 2
    /\ IsNum(variation[1]) /\ ~IsZero(variation[1])
    /\ \A c \in categories \ {1} : variation[c] = Num(0)
    /\ most_consistent = 2

\* every measure of the row is a whole rating from 1 to 5
RatedOneToFive(row) ==
    \A c \in categories :
        /\ IsNum(row.imp[c]) /\ row.imp[c].d = 1 /\ row.imp[c].n \in 1..5
        /\ IsNum(row.perf[c]) /\ row.perf[c].d = 1 /\ row.perf[c].n \in 1..5

\* the bins that count the score x
BinsOf(x) == {b \in 1..NumBins : InBin(x, b)}

(***************************************************************************)
(* C18 (as claimed): the satisfaction histogram includes all customers.    *)
(* For every dataset of customers rated from 1 to 5, every customer's      *)
(* satisfaction is counted in exactly one of the bins [50,65), [65,75),    *)
(* [75,85), [85,95), [95,100], and the bin counts sum to the number of     *)
(* customers.                                                              *)
(***************************************************************************)
C18_HistogramCountsEveryCustomer ==
    (InsightsComputed /\ \A i \in 1..Len(df) : RatedOneToFive(df[i])) =>
        /\ \A i \in 1..Len(ratings) : Cardinality(BinsOf(ratings[i])) = 1
        /\ IntSumTo(hist_counts, NumBins) = Len(ratings)
        /\ Len(ratings) = Len(df)

====
